---- MODULE Spec2Model ----
(***************************************************************************)
(* Model of audio_summary.py: a command-line run checks the API key,       *)
(* validates its input path, transcribes it with the speech model, writes  *)
(* the transcript, asks the chat API for a summary and writes the summary. *)
(* Several runs of the program share one filesystem and one wall clock.    *)
(* Strings are sequences of one-character strings.                         *)
(***************************************************************************)
EXTENDS Integers, Sequences, FiniteSets, TLC

\* ------------------------------------------------------------------ bounds
\* Resolution of the wall clock: clock readings per second.
TicksPerSecond == 2
\* The runs start in this second of the day (00:59:59, so that the minute
\* and the hour carry while the runs are in progress).
StartSecond == 3599
\* The clock advances at most this many readings during the runs.
MaxTicks == 2

\* The runs of the program (processes) that share the filesystem.
Procs == {"run1", "run2"}

\* ------------------------------------------------------- strings and paths
\* Python's None, where a string is expected: no string has a character
\* of more than one letter.
None == <<"None">>

UpperChars == <<"A","B","C","D","E","F","G","H","I","J","K","L","M",
                "N","O","P","Q","R","S","T","U","V","W","X","Y","Z">>
LowerChars == <<"a","b","c","d","e","f","g","h","i","j","k","l","m",
                "n","o","p","q","r","s","t","u","v","w","x","y","z">>

\* str.lower() on one character
LowerChar(c) ==
    IF \E i \in 1..26 : UpperChars[i] = c
    THEN LowerChars[CHOOSE i \in 1..26 : UpperChars[i] = c]
    ELSE c

\* str.lower()
Lower(s) == [i \in 1..Len(s) |-> LowerChar(s[i])]

\* str.endswith(suffix)
EndsWith(s, suffix) ==
    /\ Len(suffix) <= Len(s)
    /\ SubSeq(s, Len(s) - Len(suffix) + 1, Len(s)) = suffix

\* str.rfind(c) + 1: the last position of c in s, 0 when c does not occur
RFind(s, c) ==
    IF \E i \in 1..Len(s) : s[i] = c
    THEN CHOOSE i \in 1..Len(s) : s[i] = c /\ \A j \in (i+1)..Len(s) : s[j] # c
    ELSE 0

IsSpace(c) == c \in {" ", "\n", "\t"}

\* str.strip(): drop leading and trailing whitespace
RECURSIVE LStrip(_)
LStrip(s) == IF s # <<>> /\ IsSpace(Head(s)) THEN LStrip(Tail(s)) ELSE s
RECURSIVE RStrip(_)
RStrip(s) ==
    IF s # <<>> /\ IsSpace(s[Len(s)]) THEN RStrip(SubSeq(s, 1, Len(s) - 1)) ELSE s
Strip(s) == RStrip(LStrip(s))

\* os.path.basename
Basename(p) == SubSeq(p, RFind(p, "/") + 1, Len(p))

\* os.path.splitext: <<root, ext>>; leading dots of the file name do not
\* start an extension
Splitext(p) ==
    LET sepIndex == RFind(p, "/")
        dotIndex == RFind(p, ".")
    IN  IF /\ dotIndex > sepIndex
           /\ \E i \in (sepIndex + 1)..(dotIndex - 1) : p[i] # "."
        THEN <<SubSeq(p, 1, dotIndex - 1), SubSeq(p, dotIndex, Len(p))>>
        ELSE <<p, <<>>>>

\* os.path.join(directory, filename)
Join(directory, filename) ==
    IF filename # <<>> /\ Head(filename) = "/" THEN filename
    ELSE IF directory = <<>> \/ directory[Len(directory)] = "/"
         THEN directory \o filename
         ELSE directory \o <<"/">> \o filename

\* ------------------------------------------------------ is_supported_format
supported_formats ==
    << <<".","m","p","3">>, <<".","m","p","4">>, <<".","m","p","e","g">>,
       <<".","m","p","g","a">>, <<".","m","4","a">>, <<".","w","a","v">>,
       <<".","w","e","b","m">> >>

is_supported_format(file_path) ==
    \E i \in 1..Len(supported_formats) :
        EndsWith(Lower(file_path), supported_formats[i])

\* ------------------------------------------------- generate_output_filename
Digits == <<"0","1","2","3","4","5","6","7","8","9">>
Digit2(n) == <<Digits[((n \div 10) % 10) + 1], Digits[(n % 10) + 1]>>

\* datetime.now(): the wall clock reading, truncated to whole seconds since
\* 2024-01-01 00:00:00 local time
Seconds(tick) == tick \div TicksPerSecond

\* strftime("%Y%m%d_%H%M%S") of a reading in January 2024
strftime(tick) ==
    LET s == Seconds(tick)
    IN  <<"2","0","2","4","0","1">> \o Digit2(1 + (s \div 86400)) \o <<"_">>
        \o Digit2((s \div 3600) % 24) \o Digit2((s \div 60) % 60)
        \o Digit2(s % 60)

\* (mutant: the timestamp is left out of the name)
generate_output_filename_noTimestamp(base_name, suffix, extension, tick) ==
    base_name \o <<"_">> \o suffix \o <<".">> \o extension

generate_output_filename(base_name, suffix, extension, tick) ==
    base_name \o <<"_">> \o suffix \o <<"_">> \o strftime(tick)
    \o <<".">> \o extension

\* ------------------------------------------------------------- environment
\* Values of the OPENAI_API_KEY environment variable: unset, empty, set.
ApiKeys == {None, <<>>, <<"k">>}

\* Files that exist before the runs start: d/s.MP3, .mp3 and n.pdf.
InputFiles ==
    { <<"d","/","s",".","M","P","3">>, <<".","m","p","3">>,
      <<"n",".","p","d","f">> }

\* Command lines: one of the existing files, the missing file m.mp3, or no
\* positional argument at all.
NoArg == <<"NoArg">>
Argvs == InputFiles \cup { <<"m",".","m","p","3">>, NoArg }

\* What model.transcribe can do: return a result with this text, or raise.
Transcripts == { <<" ","h","i">> }
TranscribeOutcomes ==
    [kind : {"text"}, value : Transcripts] \cup {[kind |-> "raise", value |-> <<>>]}
\* What ChatCompletion.create can do: answer with this message content,
\* answer without a message content, or raise.
Contents == { <<" ","A","."," ">> }
ChatOutcomes ==
    [kind : {"content"}, value : Contents]
    \cup {[kind |-> "malformed", value |-> <<>>], [kind |-> "raise", value |-> <<>>]}

transcription_directory ==
    <<"a","u","d","i","o","_","t","r","a","n","s","c","r","i","p","t","i","o","n">>
summary_directory ==
    <<"a","u","d","i","o","_","s","u","m","m","a","r","i","z","e">>
transcription_suffix == <<"t","r","a","n","s","c","r","i","p","t","i","o","n">>
summary_suffix == <<"s","u","m","m","a","r","y">>
txt == <<"t","x","t">>

StartTick == StartSecond * TicksPerSecond

\* ------------------------------------------------------------------- state
VARIABLES
    now,        \* the wall clock, in readings since 2024-01-01 00:00:00
    dirs,       \* the directories created on the filesystem
    files,      \* the files written: path -> content
    genCalls,   \* history: the calls of generate_output_filename
    key,        \* per run: os.getenv("OPENAI_API_KEY")
    argv,       \* per run: the positional argument of the command line
    pc,         \* per run: the statement the run is at
    status,     \* per run: the exit status of the process, -1 while it runs
    file_path,  \* per run: main's file_path
    base_name,  \* per run: main's base_name
    model,      \* per run: whether AudioProcessor holds a loaded model
    text,       \* per run: main's text
    summary,    \* per run: main's summary
    transcription_filename,     \* per run: main's transcription_filename
    summary_filename,           \* per run: main's summary_filename
    log,        \* per run: the messages logged at level ERROR
    transcribeCalls,    \* per run: history of the model.transcribe calls
    requests,   \* per run: history of the chat-completion requests
    fsops       \* per run: history of its makedirs and file writes

vars == <<now, dirs, files, genCalls, key, argv, pc, status, file_path,
          base_name, model, text, summary, transcription_filename,
          summary_filename, log, transcribeCalls, requests, fsops>>

env == <<key, argv>>
fs == <<dirs, files>>
locals == <<file_path, base_name, model, text, summary,
            transcription_filename, summary_filename>>
calls == <<transcribeCalls, requests>>

Init ==
    /\ now = StartTick
    /\ dirs = {}
    /\ files = << >>
    /\ genCalls = {}
    /\ key \in [Procs -> ApiKeys]
    /\ argv \in [Procs -> Argvs]
    /\ pc = [p \in Procs |-> "import"]
    /\ status = [p \in Procs |-> -1]
    /\ file_path = [p \in Procs |-> None]
    /\ base_name = [p \in Procs |-> None]
    /\ model = [p \in Procs |-> FALSE]
    /\ text = [p \in Procs |-> None]
    /\ summary = [p \in Procs |-> None]
    /\ transcription_filename = [p \in Procs |-> None]
    /\ summary_filename = [p \in Procs |-> None]
    /\ log = [p \in Procs |-> <<>>]
    /\ transcribeCalls = [p \in Procs |-> <<>>]
    /\ requests = [p \in Procs |-> <<>>]
    /\ fsops = [p \in Procs |-> <<>>]

\* ---------------------------------------------------------------- helpers
\* Python truth value of an optional string
\* (mutant: only an unset variable counts as missing)
Truthy_onlyNone(v) == v # None
Truthy(v) == v # None /\ v # <<>>

\* os.path.exists
Exists(path) == path \in InputFiles \cup dirs \cup DOMAIN files

\* logging.error(msg)
Logged(p, msg) == log' = [log EXCEPT ![p] = Append(@, msg)]

\* The process ends: exit(code), or main returns (code 0).
Exit(p, code) ==
    /\ pc' = [pc EXCEPT ![p] = "exited"]
    /\ status' = [status EXCEPT ![p] = code]

\* An exception nobody catches ends the process with a traceback, status 1.
Uncaught(p) ==
    /\ pc' = [pc EXCEPT ![p] = "crashed"]
    /\ status' = [status EXCEPT ![p] = 1]

Goto(p, label) ==
    /\ pc' = [pc EXCEPT ![p] = label]
    /\ UNCHANGED status

\* ------------------------------------------------- module level (lines 22-29)
\* The API key check that runs when the module is loaded, before main.
ModuleInit(p) ==
    /\ pc[p] = "import"
    /\ \/ /\ ~Truthy(key[p])
          /\ Logged(p, "OpenAI API key is not set.")
          /\ Exit(p, 1)
       \/ /\ Truthy(key[p])
          /\ Goto(p, "parse_arguments")
          /\ UNCHANGED log
    /\ UNCHANGED <<now, fs, genCalls, env, locals, calls, fsops>>

\* --------------------------------------------------------------------- main
\* args = parse_arguments(); file_path = args.file_path
\* argparse ends the process with status 2 when the argument is missing.
ParseArguments(p) ==
    /\ pc[p] = "parse_arguments"
    /\ \/ /\ argv[p] = NoArg
          /\ Exit(p, 2)
          /\ UNCHANGED file_path
       \/ /\ argv[p] # NoArg
          /\ file_path' = [file_path EXCEPT ![p] = argv[p]]
          /\ Goto(p, "validate")
    /\ UNCHANGED <<now, fs, genCalls, env, base_name, model, text, summary,
                   transcription_filename, summary_filename, log, calls, fsops>>

\* base_name = os.path.splitext(os.path.basename(file_path))[0]
\* (mutant: the extension stays in the base name)
BaseName_keepExtension(path) == Basename(path)
BaseName(path) == Splitext(Basename(path))[1]

\* The two checks of the input path, then the base name.
Validate(p) ==
    /\ pc[p] = "validate"
    /\ \/ /\ ~Exists(file_path[p])
          /\ Logged(p, "The specified file does not exist.")
          /\ Exit(p, 0)
          /\ UNCHANGED base_name
       \/ /\ Exists(file_path[p])
          /\ ~is_supported_format(file_path[p])
          /\ Logged(p, "Unsupported file format.")
          /\ Exit(p, 0)
          /\ UNCHANGED base_name
       \/ /\ Exists(file_path[p])
          /\ is_supported_format(file_path[p])
          /\ base_name' = [base_name EXCEPT ![p] = BaseName(file_path[p])]
          /\ Goto(p, "load_model")
          /\ UNCHANGED log
    /\ UNCHANGED <<now, fs, genCalls, env, file_path, model, text, summary,
                   transcription_filename, summary_filename, calls, fsops>>

\* audio_processor = AudioProcessor(): whisper.load_model("base") returns a
\* model or raises, and nothing catches that.
LoadModel(p) ==
    /\ pc[p] = "load_model"
    /\ \/ /\ model' = [model EXCEPT ![p] = TRUE]
          /\ Goto(p, "transcribe")
       \/ /\ Uncaught(p)
          /\ UNCHANGED model
    /\ UNCHANGED <<now, fs, genCalls, env, file_path, base_name, text, summary,
                   transcription_filename, summary_filename, log, calls, fsops>>

\* (mutant: the except branch returns None)
transcribe_audio_returnsNone(p, outcome) ==
    /\ transcribeCalls' =
           [transcribeCalls EXCEPT ![p] =
               Append(@, [path |-> file_path[p], outcome |-> outcome])]
    /\ IF outcome.kind = "raise"
       THEN /\ Logged(p, "Error transcribing audio")
            /\ text' = [text EXCEPT ![p] = None]
       ELSE /\ text' = [text EXCEPT ![p] = outcome.value]
            /\ UNCHANGED log

\* AudioProcessor.transcribe_audio: the model returns a text or raises; the
\* exception is caught, logged, and the empty string returned.
transcribe_audio(p, outcome) ==
    /\ transcribeCalls' =
           [transcribeCalls EXCEPT ![p] =
               Append(@, [path |-> file_path[p], outcome |-> outcome])]
    /\ IF outcome.kind = "raise"
       THEN /\ Logged(p, "Error transcribing audio")
            /\ text' = [text EXCEPT ![p] = <<>>]
       ELSE /\ text' = [text EXCEPT ![p] = outcome.value]
            /\ UNCHANGED log

\* (mutant: main summarizes before it saves the transcription)
Transcribe_thenSummarize(p) ==
    /\ pc[p] = "transcribe"
    /\ \E outcome \in TranscribeOutcomes : transcribe_audio(p, outcome)
    /\ Goto(p, "summarize")
    /\ UNCHANGED <<now, fs, genCalls, env, file_path, base_name, model, summary,
                   transcription_filename, summary_filename, requests, fsops>>

\* text = audio_processor.transcribe_audio(file_path)
Transcribe(p) ==
    /\ pc[p] = "transcribe"
    /\ \E outcome \in TranscribeOutcomes : transcribe_audio(p, outcome)
    /\ Goto(p, "transcription_writer")
    /\ UNCHANGED <<now, fs, genCalls, env, file_path, base_name, model, summary,
                   transcription_filename, summary_filename, requests, fsops>>

\* FileWriter.__init__ / ensure_directory_exists: os.makedirs(directory,
\* exist_ok=True) creates the directory or raises; nothing catches that.
FileWriterInit(p, directory, next) ==
    \/ /\ dirs' = dirs \cup {directory}
       /\ fsops' = [fsops EXCEPT ![p] =
              Append(@, [op |-> "makedirs", path |-> directory, result |-> "ok"])]
       /\ Goto(p, next)
    \/ /\ UNCHANGED dirs
       /\ fsops' = [fsops EXCEPT ![p] =
              Append(@, [op |-> "makedirs", path |-> directory, result |-> "error"])]
       /\ Uncaught(p)

\* generate_output_filename called by run p, with its history record
GenerateFilename(p, suffix) ==
    [base_name |-> base_name[p], suffix |-> suffix, extension |-> txt,
     tick |-> now,
     filename |-> generate_output_filename(base_name[p], suffix, txt, now)]

\* open(path, "w") and f.write(content)
Written(path, content) ==
    [f \in DOMAIN files \cup {path} |-> IF f = path THEN content ELSE files[f]]

\* (mutant: write_to_file catches the exceptions and returns)
write_to_file_swallow(p, directory, filename, content, next) ==
    LET path == Join(directory, filename)
        op(result) == [op |-> "write", path |-> path, content |-> content,
                       result |-> result]
    IN  \/ /\ files' = Written(path, content)
           /\ fsops' = [fsops EXCEPT ![p] = Append(@, op("ok"))]
           /\ Goto(p, next)
        \/ /\ UNCHANGED files
           /\ fsops' = [fsops EXCEPT ![p] = Append(@, op("open raises"))]
           /\ Goto(p, next)
        \/ /\ files' = Written(path, <<>>)
           /\ fsops' = [fsops EXCEPT ![p] = Append(@, op("write raises"))]
           /\ Goto(p, next)

\* FileWriter.write_to_file: the file is created or truncated and gets the
\* content; open may raise (nothing changes), write may raise after open
\* truncated the file; nothing catches either.
write_to_file(p, directory, filename, content, next) ==
    LET path == Join(directory, filename)
        op(result) == [op |-> "write", path |-> path, content |-> content,
                       result |-> result]
    IN  \/ /\ files' = Written(path, content)
           /\ fsops' = [fsops EXCEPT ![p] = Append(@, op("ok"))]
           /\ Goto(p, next)
        \/ /\ UNCHANGED files
           /\ fsops' = [fsops EXCEPT ![p] = Append(@, op("open raises"))]
           /\ Uncaught(p)
        \/ /\ files' = Written(path, <<>>)
           /\ fsops' = [fsops EXCEPT ![p] = Append(@, op("write raises"))]
           /\ Uncaught(p)

\* transcription_writer = FileWriter("audio_transcription")
TranscriptionWriter(p) ==
    /\ pc[p] = "transcription_writer"
    /\ FileWriterInit(p, transcription_directory, "transcription_filename")
    /\ UNCHANGED <<now, files, genCalls, env, locals, log, calls>>

\* transcription_filename = generate_output_filename(base_name, "transcription", "txt")
TranscriptionFilename(p) ==
    /\ pc[p] = "transcription_filename"
    /\ LET call == GenerateFilename(p, transcription_suffix)
       IN  /\ genCalls' = genCalls \cup {call}
           /\ transcription_filename' =
                  [transcription_filename EXCEPT ![p] = call.filename]
    /\ Goto(p, "write_transcription")
    /\ UNCHANGED <<now, fs, env, file_path, base_name, model, text, summary,
                   summary_filename, log, calls, fsops>>

\* transcription_writer.write_to_file(transcription_filename, text)
WriteTranscription(p) ==
    /\ pc[p] = "write_transcription"
    /\ write_to_file(p, transcription_directory, transcription_filename[p],
                     text[p], "summarize")
    /\ UNCHANGED <<now, dirs, genCalls, env, locals, log, calls>>

\* (mutant: a failed request is sent a second time)
summarize_text_retry(p, input, outcome) ==
    /\ requests' = [requests EXCEPT ![p] =
           IF outcome.kind \in {"raise", "malformed"}
           THEN @ \o <<[text |-> input, outcome |-> outcome],
                        [text |-> input, outcome |-> outcome]>>
           ELSE Append(@, [text |-> input, outcome |-> outcome])]
    /\ IF outcome.kind \in {"raise", "malformed"}
       THEN /\ Logged(p, "Error summarizing text")
            /\ summary' = [summary EXCEPT ![p] = <<>>]
       ELSE /\ summary' = [summary EXCEPT ![p] = Strip(outcome.value)]
            /\ UNCHANGED log

\* AudioProcessor.summarize_text: one request; the call raises, or answers
\* without a message content (the subscript raises), or answers with a
\* content, which is stripped. Every exception is caught and logged, and the
\* empty string returned.
summarize_text(p, input, outcome) ==
    /\ requests' = [requests EXCEPT ![p] =
           Append(@, [text |-> input, outcome |-> outcome])]
    /\ IF outcome.kind \in {"raise", "malformed"}
       THEN /\ Logged(p, "Error summarizing text")
            /\ summary' = [summary EXCEPT ![p] = <<>>]
       ELSE /\ summary' = [summary EXCEPT ![p] = Strip(outcome.value)]
            /\ UNCHANGED log

\* summary = audio_processor.summarize_text(text)
Summarize(p) ==
    /\ pc[p] = "summarize"
    /\ \E outcome \in ChatOutcomes :
           summarize_text(p, text[p], outcome)
    /\ Goto(p, "summary_writer")
    /\ UNCHANGED <<now, fs, genCalls, env, file_path, base_name, model, text,
                   transcription_filename, summary_filename, transcribeCalls,
                   fsops>>

\* summary_writer = FileWriter("audio_summarize")
SummaryWriter(p) ==
    /\ pc[p] = "summary_writer"
    /\ FileWriterInit(p, summary_directory, "summary_filename")
    /\ UNCHANGED <<now, files, genCalls, env, locals, log, calls>>

\* summary_filename = generate_output_filename(base_name, "summary", "txt")
SummaryFilename(p) ==
    /\ pc[p] = "summary_filename"
    /\ LET call == GenerateFilename(p, summary_suffix)
       IN  /\ genCalls' = genCalls \cup {call}
           /\ summary_filename' = [summary_filename EXCEPT ![p] = call.filename]
    /\ Goto(p, "write_summary")
    /\ UNCHANGED <<now, fs, env, file_path, base_name, model, text, summary,
                   transcription_filename, log, calls, fsops>>

\* summary_writer.write_to_file(summary_filename, summary); main returns
WriteSummary(p) ==
    /\ pc[p] = "write_summary"
    /\ write_to_file(p, summary_directory, summary_filename[p], summary[p],
                     "return")
    /\ UNCHANGED <<now, dirs, genCalls, env, locals, log, calls>>

\* main returns and the process ends normally
Return(p) ==
    /\ pc[p] = "return"
    /\ Exit(p, 0)
    /\ UNCHANGED <<now, fs, genCalls, env, locals, log, calls, fsops>>

\* The wall clock advances by one reading.
Tick ==
    /\ now < StartTick + MaxTicks
    /\ now' = now + 1
    /\ UNCHANGED <<fs, genCalls, env, pc, status, locals, log, calls, fsops>>

Next ==
    \/ Tick
    \/ \E p \in Procs :
        \/ ModuleInit(p)
        \/ ParseArguments(p)
        \/ Validate(p)
        \/ LoadModel(p)
        \/ Transcribe(p)
        \/ TranscriptionWriter(p)
        \/ TranscriptionFilename(p)
        \/ WriteTranscription(p)
        \/ Summarize(p)
        \/ SummaryWriter(p)
        \/ SummaryFilename(p)
        \/ WriteSummary(p)
        \/ Return(p)

Spec == Init /\ [][Next]_vars

\* ============================================================== properties
Ended(p) == pc[p] \in {"exited", "crashed"}

\* The path's file extension (os.path.splitext), compared case-insensitively,
\* is one of the supported ones.
SupportedExtensions == {supported_formats[i] : i \in 1..Len(supported_formats)}
HasSupportedExtension(path) == Lower(Splitext(path)[2]) \in SupportedExtensions

\* path is the directory dir or lies in it
InDir(path, dir) ==
    \/ path = dir
    \/ /\ Len(path) > Len(dir)
       /\ SubSeq(path, 1, Len(dir) + 1) = dir \o <<"/">>

\* The filesystem operations of run p on directory dir, in order.
OpsIn(p, dir) == SelectSeq(fsops[p], LAMBDA o : InDir(o.path, dir))
\* The file writes of run p that succeeded, in order.
OkWrites(p) == SelectSeq(fsops[p], LAMBDA o : o.op = "write" /\ o.result = "ok")
\* Some directory creation or file write of run p raised.
FsError(p) == \E i \in DOMAIN fsops[p] : fsops[p][i].result # "ok"

\* Run p did no work: no argument parsed, no model, no service call, no
\* filesystem change of its own.
NoWork(p) ==
    /\ ~model[p]
    /\ transcribeCalls[p] = <<>>
    /\ requests[p] = <<>>
    /\ fsops[p] = <<>>

\* Main of run p has checked its input path.
Validated(p) ==
    /\ file_path[p] # None
    /\ pc[p] \notin {"import", "parse_arguments", "validate"}

\* C1 (as claimed): a run whose input path does not exist, or exists without
\* a supported extension, logs one error and returns (status 0) without
\* loading the model, calling a service or touching the filesystem.
C1_InvalidInputNoWork ==
    \A p \in Procs :
        ( /\ Validated(p)
          /\ \/ ~Exists(file_path[p])
             \/ ~HasSupportedExtension(file_path[p]) )
        => /\ pc[p] = "exited"
           /\ status[p] = 0
           /\ Len(log[p]) = 1
           /\ NoWork(p)

\* C7 (as claimed): the format check accepts a path if and only if its file
\* extension, compared case-insensitively, is a supported one; main rejects
\* an existing path exactly when is_supported_format is false for it.
C7_SupportedIffExtension ==
    \A p \in Procs :
        (Validated(p) /\ Exists(file_path[p]))
        => /\ is_supported_format(file_path[p]) <=> HasSupportedExtension(file_path[p])
           /\ (log[p] = <<"Unsupported file format.">>)
                  <=> ~HasSupportedExtension(file_path[p])

\* C9: when the API key variable is unset or empty the process logs an
\* error and exits with status 1 before any work: no argument is parsed, no
\* input validated, no model loaded, no service called, nothing created,
\* whatever the command line.
C9_NoKeyExitsBeforeWork ==
    \A p \in Procs :
        (key[p] \in {None, <<>>} /\ pc[p] # "import")
        => /\ pc[p] = "exited"
           /\ status[p] = 1
           /\ log[p] = <<"OpenAI API key is not set.">>
           /\ file_path[p] = None
           /\ base_name[p] = None
           /\ NoWork(p)

\* Witness of C9: a run with an empty key has exited on a command line that
\* names a valid input, while the other run, with a key, wrote its files.
C9_Witness ==
    \E p, q \in Procs :
        /\ key[p] = <<>> /\ pc[p] = "exited"
        /\ argv[p] = <<"d","/","s",".","M","P","3">>
        /\ pc[q] = "exited" /\ Len(OkWrites(q)) = 2

SameArguments(a, b) ==
    /\ a.base_name = b.base_name
    /\ a.suffix = b.suffix
    /\ a.extension = b.extension

C6_AppendOnly ==
    [][\A f \in DOMAIN files : f \in DOMAIN files' /\ files'[f] = files[f]]_vars

\* The statements of a run in program order, and the pipeline stage of each:
\* 1 Validate, 2 Transcribe, 3 PersistTranscript, 4 Summarize, 5 PersistSummary
\* (0: before main validates, 6: main has returned or the process has ended).
Statements ==
    <<"import", "parse_arguments", "validate", "load_model", "transcribe",
      "transcription_writer", "transcription_filename", "write_transcription",
      "summarize", "summary_writer", "summary_filename", "write_summary",
      "return", "exited", "crashed">>
Position(label) == CHOOSE i \in 1..Len(Statements) : Statements[i] = label
StageOf(label) ==
    CASE label \in {"import", "parse_arguments"} -> 0
      [] label = "validate" -> 1
      [] label \in {"load_model", "transcribe"} -> 2
      [] label \in {"transcription_writer", "transcription_filename",
                    "write_transcription"} -> 3
      [] label = "summarize" -> 4
      [] label \in {"summary_writer", "summary_filename", "write_summary"} -> 5
      [] OTHER -> 6

\* Run p has written its transcript file / attempted a write of its summary.
TranscriptWritten(p) ==
    \E i \in DOMAIN fsops[p] :
        /\ fsops[p][i].op = "write" /\ fsops[p][i].result = "ok"
        /\ InDir(fsops[p][i].path, transcription_directory)
SummaryWriteTried(p) ==
    \E i \in DOMAIN fsops[p] :
        /\ fsops[p][i].op = "write"
        /\ InDir(fsops[p][i].path, summary_directory)

\* One step of run p respects the order of the stages.
StageStep(p) ==
    /\ pc'[p] # pc[p] =>
          /\ Position(pc'[p]) > Position(pc[p])
          /\ StageOf(pc'[p]) <= 5 => StageOf(pc'[p]) <= StageOf(pc[p]) + 1
    /\ transcribeCalls'[p] # transcribeCalls[p] =>
          /\ StageOf(pc[p]) = 2
          /\ transcribeCalls[p] = <<>> /\ Len(transcribeCalls'[p]) = 1
    /\ requests'[p] # requests[p] =>
          /\ StageOf(pc[p]) = 4
          /\ requests[p] = <<>> /\ Len(requests'[p]) = 1
          /\ TranscriptWritten(p) /\ ~SummaryWriteTried(p)
    /\ fsops'[p] # fsops[p] =>
          LET o == fsops'[p][Len(fsops'[p])]
          IN  \/ /\ StageOf(pc[p]) = 3
                 /\ InDir(o.path, transcription_directory)
                 /\ requests[p] = <<>>
              \/ /\ StageOf(pc[p]) = 5
                 /\ InDir(o.path, summary_directory)
                 /\ Len(requests[p]) = 1

\* C2: in every run the stages occur only in the order Validate, Transcribe,
\* PersistTranscript, Summarize, PersistSummary: every statement runs at most
\* once, no stage is skipped or entered before the one before it, control
\* never goes back, the transcript file is written before the one
\* summarization request and the summary file only after it.
C2_StagesInOrder == [][\A p \in Procs : StageStep(p)]_vars

\* Witness of C2: a run went through all five stages.
C2_Witness ==
    \E p \in Procs :
        /\ pc[p] = "exited" /\ status[p] = 0
        /\ Len(transcribeCalls[p]) = 1 /\ Len(requests[p]) = 1
        /\ Len(OkWrites(p)) = 2

TranscribeFailed(p) ==
    /\ transcribeCalls[p] # <<>>
    /\ transcribeCalls[p][1].outcome.kind = "raise"

SummarizeFailed(p) ==
    /\ requests[p] # <<>>
    /\ requests[p][1].outcome.kind \in {"raise", "malformed"}

\* After a failed transcription run p wrote an empty transcript, asked for
\* the summary of the empty text and wrote a summary file.
EmptyTranscriptPipeline(p) ==
    /\ pc[p] = "exited" /\ status[p] = 0
    /\ Len(requests[p]) = 1 /\ requests[p][1].text = <<>>
    /\ Len(OkWrites(p)) = 2
    /\ InDir(OkWrites(p)[1].path, transcription_directory)
    /\ OkWrites(p)[1].content = <<>>
    /\ InDir(OkWrites(p)[2].path, summary_directory)

TranscriptPath(p) == Join(transcription_directory, transcription_filename[p])

\* The step appends an operation of run p on the summary directory, and the
\* transcript file the run wrote stays in place with its content.
SummaryOpKeepsTranscript(p) ==
    (/\ fsops'[p] # fsops[p]
     /\ InDir(fsops'[p][Len(fsops'[p])].path, summary_directory))
    => /\ TranscriptPath(p) \in DOMAIN files
       /\ TranscriptPath(p) \in DOMAIN files'
       /\ files'[TranscriptPath(p)] = files[TranscriptPath(p)]

\* Run p ended normally and its second file is an empty summary.
EmptySummaryWritten(p) ==
    /\ pc[p] = "exited" /\ status[p] = 0
    /\ Len(OkWrites(p)) = 2
    /\ InDir(OkWrites(p)[2].path, summary_directory)
    /\ OkWrites(p)[2].content = <<>>

IsOutputName(name, p, suffix) ==
    \E t \in StartTick..now :
        name = Splitext(Basename(file_path[p]))[1] \o <<"_">> \o suffix
               \o <<"_">> \o strftime(t) \o <<".">> \o txt

\* Run p had an existing input with a supported extension, got a transcript
\* and a summary and ended without a failed directory creation or write.
CompleteRun(p) ==
    /\ Validated(p)
    /\ Exists(file_path[p]) /\ HasSupportedExtension(file_path[p])
    /\ Len(transcribeCalls[p]) = 1 /\ Len(requests[p]) = 1
    /\ Ended(p) /\ ~FsError(p)

\* What transcribe_audio and summarize_text yield for an outcome of the call.
Yielded(outcome) ==
    CASE outcome.kind = "text" -> outcome.value
      [] outcome.kind = "content" -> Strip(outcome.value)
      [] OTHER -> <<>>

\* C5: a run on an existing input with a supported extension whose
\* transcription yields T, whose summarization yields S and whose writes
\* succeed creates exactly two files,
\* audio_transcription/<base>_transcription_<ts>.txt with content T and
\* audio_summarize/<base>_summary_<ts>.txt with content S; the summarizer
\* got exactly the T written; each write leaves its content in the file.
C5_TwoArtifacts ==
    /\ [](\A p \in Procs :
            CompleteRun(p)
            => /\ pc[p] = "exited" /\ status[p] = 0
               /\ Len(SelectSeq(fsops[p], LAMBDA o : o.op = "write")) = 2
               /\ Len(OkWrites(p)) = 2
               /\ LET t == OkWrites(p)[1]
                      u == OkWrites(p)[2]
                  IN  /\ \E n \in {transcription_filename[p]} :
                             /\ IsOutputName(n, p, transcription_suffix)
                             /\ t.path = transcription_directory \o <<"/">> \o n
                      /\ t.content = Yielded(transcribeCalls[p][1].outcome)
                      /\ t.content = text[p]
                      /\ requests[p][1].text = t.content
                      /\ \E n \in {summary_filename[p]} :
                             /\ IsOutputName(n, p, summary_suffix)
                             /\ u.path = summary_directory \o <<"/">> \o n
                      /\ u.content = Yielded(requests[p][1].outcome)
                      /\ u.content = summary[p])
    /\ [][\A p \in Procs :
            (/\ fsops'[p] # fsops[p]
             /\ fsops'[p][Len(fsops'[p])].op = "write"
             /\ fsops'[p][Len(fsops'[p])].result = "ok")
            => LET o == fsops'[p][Len(fsops'[p])]
               IN  /\ o.path \in DOMAIN files'
                   /\ files'[o.path] = o.content
                   /\ \A f \in DOMAIN files : f # o.path => files'[f] = files[f]]_vars

\* Witness of C5: a complete run on d/s.MP3 with a non-empty transcript and
\* a non-empty summary, stripped of the blanks around the answer.
C5_Witness ==
    \E p \in Procs :
        /\ CompleteRun(p)
        /\ file_path[p] = <<"d","/","s",".","M","P","3">>
        /\ OkWrites(p)[1].content = <<" ","h","i">>
        /\ OkWrites(p)[2].content = <<"A",".">>
        /\ OkWrites(p)[1].path \in DOMAIN files
        /\ OkWrites(p)[2].path \in DOMAIN files

\* C10: a failed directory creation or file write is not caught and not
\* retried: the run ends there with a fatal error (status 1); when it
\* happens at PersistTranscript no summarization request is sent and the run
\* touches neither the summary directory nor a summary file; when it happens
\* at PersistSummary the transcript file the run wrote is left in place
\* unchanged.
C10_WriteFailureIsFatal ==
    /\ [](\A p \in Procs : \A i \in DOMAIN fsops[p] :
            fsops[p][i].result # "ok"
            => /\ i = Len(fsops[p])
               /\ pc[p] = "crashed" /\ status[p] = 1
               /\ \A j \in DOMAIN fsops[p] :
                      (/\ fsops[p][j].op = fsops[p][i].op
                       /\ fsops[p][j].path = fsops[p][i].path) => j = i
               /\ InDir(fsops[p][i].path, transcription_directory)
                      => /\ requests[p] = <<>>
                         /\ OpsIn(p, summary_directory) = <<>>
                         /\ summary[p] = None
               /\ InDir(fsops[p][i].path, summary_directory)
                      => /\ TranscriptPath(p) \in DOMAIN files
                         /\ TranscriptWritten(p))
    /\ [][\A p \in Procs :
            (/\ fsops'[p] # fsops[p]
             /\ fsops'[p][Len(fsops'[p])].result # "ok")
            => SummaryOpKeepsTranscript(p)]_vars

\* Witness of C10: one run failed writing its transcript, the other failed
\* in the middle of writing its summary.
C10_Witness ==
    \E p, q \in Procs :
        /\ pc[p] = "crashed" /\ fsops[p] # <<>>
        /\ fsops[p][Len(fsops[p])].op = "write"
        /\ InDir(fsops[p][Len(fsops[p])].path, transcription_directory)
        /\ pc[q] = "crashed" /\ fsops[q] # <<>>
        /\ fsops[q][Len(fsops[q])].result = "write raises"
        /\ InDir(fsops[q][Len(fsops[q])].path, summary_directory)

====
